---- MODULE Spec2Model ----
(***************************************************************************)
(* Supervisor / Planner / Reviewer graph of langgraph_agents.py.           *)
(*                                                                         *)
(* The compiled graph runs one node at a time: supervisor_node, then the   *)
(* conditional edge router_logic, then the selected agent node, then the   *)
(* supervisor again.  The shared AgentState is one record; a node returns  *)
(* a partial update that is merged field by field.  ollama.generate is the *)
(* only source of nondeterminism: every call either raises or returns one  *)
(* of a small set of response texts.                                       *)
(***************************************************************************)
EXTENDS Integers, Sequences, FiniteSets, TLC

(***************************************************************************)
(* Bounds of the model (not program constants).                            *)
(***************************************************************************)
\* Largest initial turn_count drawn when the router's inputs are enumerated.
MaxInitTurn == 6

(***************************************************************************)
(* Program constants.                                                      *)
(***************************************************************************)
max_turns == 5
END == "__end__"
\* main() calls graph.stream(initial_state) without a config, so the graph
\* library's default limit on the node executions (supersteps) of a run
\* applies; a run that has not reached END by then is aborted with
\* GraphRecursionError.
recursion_limit == 25
GraphRecursionError == "GraphRecursionError"
\* An exception raised inside a node and caught by none of its handlers.
NodeException == "NodeException"

(***************************************************************************)
(* JSON values as json.loads produces them, tagged with their Python type. *)
(* v is the value's text (the string's content, or the JSON source).       *)
(***************************************************************************)
JStr(s) == [t |-> "str", v |-> s]
JTrue == [t |-> "bool", v |-> "true"]
JFalse == [t |-> "bool", v |-> "false"]
JInt(s) == [t |-> "int", v |-> s]
JList(s) == [t |-> "list", v |-> s]
Absent == [t |-> "absent", v |-> ""]

\* The keys a dict of this program can carry; a dict maps each key to a
\* value or to Absent, and {} maps every key to Absent.
Keys == {"plan", "steps", "feedback", "has_issues", "suggestions"}
EmptyDict == [k \in Keys |-> Absent]
Dict(r) == [k \in Keys |-> IF k \in DOMAIN r THEN r[k] ELSE Absent]

\* bool(value) of Python.
Truthy(val) ==
    CASE val.t = "str" -> val.v # ""
      [] val.t = "bool" -> val.v = "true"
      [] val.t = "int" -> val.v # "0"
      [] val.t = "list" -> val.v # "[]"
      [] OTHER -> FALSE

\* bool(d) of a dict: true unless it is {}.
DictTruthy(d) == \E k \in Keys : d[k] # Absent

\* d.get(k, default)
Get(d, k, default) == IF d[k] = Absent THEN default ELSE d[k]

\* len(value) is defined for str and list and raises TypeError otherwise.
HasLen(val) == val.t \in {"str", "list"}

(***************************************************************************)
(* The Generation Client: ollama.generate(model, prompt).                  *)
(***************************************************************************)
TxtEmpty == ""
TxtProse == "  1. do it  "
TxtList == "[1]"
TxtEmptyObj == "{}"
TxtPlan == "{\"plan\": \"p\", \"steps\": [\"s\"]}"
TxtPlanOnly == "{\"plan\": \"p\"}"
TxtBadSteps == "{\"plan\": \"p\", \"steps\": 5}"
TxtIssues == "{\"feedback\": \"f\", \"has_issues\": true, \"suggestions\": [\"g\"]}"
TxtOk == "{\"feedback\": \"f\", \"has_issues\": false, \"suggestions\": []}"
TxtNoFlag == "{\"feedback\": \"f\"}"

Responses ==
    {TxtEmpty, TxtProse, TxtList, TxtEmptyObj, TxtPlan, TxtPlanOnly,
     TxtBadSteps, TxtIssues, TxtOk, TxtNoFlag}

ClientErrors == {"connection refused", "model not found"}

\* One call's outcome: it raised (text is str(e)) or returned text.
Outcomes ==
    {[raised |-> TRUE, text |-> e] : e \in ClientErrors}
      \cup {[raised |-> FALSE, text |-> r] : r \in Responses}

\* str.strip()
strip(text) == IF text = TxtProse THEN "1. do it" ELSE text

\* json.loads(text): ok is FALSE when it raises JSONDecodeError; otherwise
\* t is the Python type of the result and d the dict when it is one.
json_loads(text) ==
    CASE text = TxtList ->
           [ok |-> TRUE, t |-> "list", d |-> EmptyDict]
      [] text = TxtEmptyObj ->
           [ok |-> TRUE, t |-> "dict", d |-> EmptyDict]
      [] text = TxtPlan ->
           [ok |-> TRUE, t |-> "dict",
            d |-> Dict([plan |-> JStr("p"), steps |-> JList("[\"s\"]")])]
      [] text = TxtPlanOnly ->
           [ok |-> TRUE, t |-> "dict", d |-> Dict([plan |-> JStr("p")])]
      [] text = TxtBadSteps ->
           [ok |-> TRUE, t |-> "dict",
            d |-> Dict([plan |-> JStr("p"), steps |-> JInt("5")])]
      [] text = TxtIssues ->
           [ok |-> TRUE, t |-> "dict",
            d |-> Dict([feedback |-> JStr("f"), has_issues |-> JTrue,
                        suggestions |-> JList("[\"g\"]")])]
      [] text = TxtOk ->
           [ok |-> TRUE, t |-> "dict",
            d |-> Dict([feedback |-> JStr("f"), has_issues |-> JFalse,
                        suggestions |-> JList("[]")])]
      [] text = TxtNoFlag ->
           [ok |-> TRUE, t |-> "dict", d |-> Dict([feedback |-> JStr("f")])]
      [] OTHER ->
           [ok |-> FALSE, t |-> "", d |-> EmptyDict]

\* str(e) of the AttributeError raised by .get on a value that is no dict.
AttributeErrorText(t) == "'" \o t \o "' object has no attribute 'get'"
\* str(e) of the TypeError raised by len() on a value without a length.
TypeErrorText(t) == "object of type '" \o t \o "' has no len()"

(***************************************************************************)
(* The prompts.  A prompt is the template used and the values its f-string *)
(* embeds; fields a template does not embed are empty.                     *)
(***************************************************************************)
NoPrompt ==
    [template |-> "", task |-> "", plan |-> EmptyDict,
     feedback |-> EmptyDict, tone |-> ""]

\* The prompt of planner_node: the task and nothing else of the state.
planner_prompt(st) ==
    [template |-> "first_draft", task |-> st.task, plan |-> EmptyDict,
     feedback |-> EmptyDict, tone |-> ""]

\* The prompt of reviewer_node: the plan and the tone chosen by strict.
reviewer_prompt(st) ==
    [template |-> "review", task |-> "", plan |-> st.planner_proposal,
     feedback |-> EmptyDict,
     tone |-> IF st.strict THEN "very strict and critical"
                           ELSE "balanced and constructive"]

(***************************************************************************)
(* The nodes.  Each returns its partial update of the state; an exception  *)
(* that no handler of the node catches would be the update [raise |-> e].  *)
(***************************************************************************)
\* The record of planner_node's outer except branch.
planner_error(msg) ==
    Dict([plan |-> JStr("Error: " \o msg), steps |-> JList("[]")])

\* planner_node with only json.loads guarded: what the print line and the
\* client raise leaves the node.
planner_node_inner_except_only(st, out) ==
    IF out.raised
      THEN [raise |-> out.text]
      ELSE LET output == strip(out.text)
               parsed == json_loads(output)
               proposal == IF parsed.ok
                             THEN parsed.d
                             ELSE Dict([plan |-> JStr(output),
                                        steps |-> JList("[]")])
           IN  IF parsed.ok /\ parsed.t # "dict"
                 THEN [raise |-> AttributeErrorText(parsed.t)]
               ELSE IF ~HasLen(Get(proposal, "steps", JList("[]")))
                 THEN [raise |-> TypeErrorText(
                                   Get(proposal, "steps", JList("[]")).t)]
               ELSE [planner_proposal |-> proposal]

planner_node(st, out) ==
    IF out.raised
      THEN [planner_proposal |-> planner_error(out.text)]
      ELSE LET output == strip(out.text)
               parsed == json_loads(output)
               proposal == IF parsed.ok
                             THEN parsed.d
                             ELSE Dict([plan |-> JStr(output),
                                        steps |-> JList("[]")])
           IN  IF parsed.ok /\ parsed.t # "dict"
                 THEN [planner_proposal |->
                         planner_error(AttributeErrorText(parsed.t))]
               ELSE IF ~HasLen(Get(proposal, "steps", JList("[]")))
                 THEN [planner_proposal |->
                         planner_error(TypeErrorText(
                             Get(proposal, "steps", JList("[]")).t))]
               ELSE [planner_proposal |-> proposal]

\* reviewer_error as it would be if a failed review asked for a retry.
reviewer_error_retry(msg) ==
    Dict([feedback |-> JStr("Error: " \o msg), has_issues |-> JTrue,
          suggestions |-> JList("[]")])

\* The record of reviewer_node's outer except branch.
reviewer_error(msg) ==
    Dict([feedback |-> JStr("Error: " \o msg), has_issues |-> JFalse,
          suggestions |-> JList("[]")])

reviewer_node(st, out) ==
    IF out.raised
      THEN [reviewer_feedback |-> reviewer_error(out.text)]
      ELSE LET output == strip(out.text)
               parsed == json_loads(output)
               feedback == IF parsed.ok
                             THEN parsed.d
                             ELSE Dict([feedback |-> JStr(output),
                                        has_issues |-> JFalse,
                                        suggestions |-> JList("[]")])
           IN  IF parsed.ok /\ parsed.t # "dict"
                 THEN [reviewer_feedback |->
                         reviewer_error(AttributeErrorText(parsed.t))]
                 ELSE [reviewer_feedback |-> feedback]

\* supervisor_node returning current_turn instead of new_turn.
supervisor_node_current_turn(st) == [turn_count |-> st.turn_count]

supervisor_node(st) == [turn_count |-> st.turn_count + 1]

\* The branch of router_logic that decides, in the order of the code:
\* "no_proposal", "no_feedback", "max_turns", "loop_back", "no_issues".
router_branch(st) ==
    IF ~DictTruthy(st.planner_proposal) THEN "no_proposal"
    ELSE IF ~DictTruthy(st.reviewer_feedback) THEN "no_feedback"
    ELSE IF Truthy(Get(st.reviewer_feedback, "has_issues", JFalse))
      THEN IF st.turn_count >= max_turns THEN "max_turns" ELSE "loop_back"
    ELSE "no_issues"

\* router_logic with the has_issues test negated.
router_logic_inverted(st) ==
    IF ~DictTruthy(st.planner_proposal) THEN "planner"
    ELSE IF ~DictTruthy(st.reviewer_feedback) THEN "reviewer"
    ELSE IF ~Truthy(Get(st.reviewer_feedback, "has_issues", JFalse))
      THEN IF st.turn_count >= max_turns THEN END ELSE "planner"
    ELSE END

\* router_logic with the feedback check placed before the proposal check.
router_logic_feedback_first(st) ==
    IF ~DictTruthy(st.reviewer_feedback) THEN "reviewer"
    ELSE IF ~DictTruthy(st.planner_proposal) THEN "planner"
    ELSE IF Truthy(Get(st.reviewer_feedback, "has_issues", JFalse))
      THEN IF st.turn_count >= max_turns THEN END ELSE "planner"
    ELSE END

\* router_logic with the turn limit checked before everything else.
router_logic_turn_first(st) ==
    IF st.turn_count >= max_turns THEN END
    ELSE IF ~DictTruthy(st.planner_proposal) THEN "planner"
    ELSE IF ~DictTruthy(st.reviewer_feedback) THEN "reviewer"
    ELSE IF Truthy(Get(st.reviewer_feedback, "has_issues", JFalse))
      THEN "planner"
    ELSE END

\* router_logic with the turn limit compared by > instead of >=.
router_logic_off_by_one(st) ==
    IF ~DictTruthy(st.planner_proposal) THEN "planner"
    ELSE IF ~DictTruthy(st.reviewer_feedback) THEN "reviewer"
    ELSE IF Truthy(Get(st.reviewer_feedback, "has_issues", JFalse))
      THEN IF st.turn_count > max_turns THEN END ELSE "planner"
    ELSE END

router_logic(st) ==
    IF ~DictTruthy(st.planner_proposal) THEN "planner"
    ELSE IF ~DictTruthy(st.reviewer_feedback) THEN "reviewer"
    ELSE IF Truthy(Get(st.reviewer_feedback, "has_issues", JFalse))
      THEN IF st.turn_count >= max_turns THEN END ELSE "planner"
    ELSE END

(***************************************************************************)
(* The graph of build_graph.                                               *)
(***************************************************************************)
entry_point == "supervisor"

\* The edges with the reviewer wired straight back to the planner.
edge_reviewer_to_planner(node) ==
    IF node = "reviewer" THEN "planner" ELSE "supervisor"

\* The edges with the planner wired straight to the reviewer.
edge_planner_to_reviewer(node) ==
    IF node = "planner" THEN "reviewer" ELSE "supervisor"

\* add_edge("planner", "supervisor"), add_edge("reviewer", "supervisor")
edge(node) == "supervisor"

\* The path map of add_conditional_edges("supervisor", router_logic, ...).
path_map(r) ==
    CASE r = "planner" -> "planner"
      [] r = "reviewer" -> "reviewer"
      [] r = END -> END

\* Field-level overwrite of the state by a node's update.
Merge(st, up) ==
    [k \in DOMAIN st |-> IF k \in DOMAIN up THEN up[k] ELSE st[k]]

\* The initial_state of main().
initial_state(task, strict) ==
    [title |-> "LangGraph Agent Task",
     content |-> task,
     email |-> "user@example.com",
     strict |-> strict,
     task |-> task,
     llm |-> "smollm:1.7b",
     planner_proposal |-> EmptyDict,
     reviewer_feedback |-> EmptyDict,
     turn_count |-> 0]

\* Non-empty task texts the user can enter.
Tasks == {"write a report", "sort a list"}
\* What input() can return for the task, once stripped.
TaskInputs == Tasks \cup {""}
Models == {"smollm:1.7b", "llama3"}

(***************************************************************************)
(* State.                                                                  *)
(***************************************************************************)
VARIABLES
    state,       \* the AgentState of the run
    next,        \* the node the graph executes next, or END
    trace,       \* the nodes executed so far, in order
    routes,      \* the branch of router_logic taken at each decision
    reviewed,    \* a reviewer ran since planner_proposal was last written
    all_issues,  \* every reviewer run so far stored truthy has_issues
    all_raised,  \* every ollama.generate call so far raised
    no_empty,    \* no response so far parsed to the empty JSON object
    call,        \* the last ollama.generate call: model, prompt, outcome
    streamed     \* <<final state of the graph.stream run>> once it is over

vars == <<state, next, trace, routes, reviewed, all_issues, all_raised,
          no_empty, call, streamed>>

NoCall ==
    [model |-> "", prompt |-> NoPrompt, out |-> [raised |-> FALSE, text |-> ""]]

\* The response of this outcome parses to {}.
ParsesToEmpty(out) ==
    /\ ~out.raised
    /\ json_loads(strip(out.text)).ok
    /\ json_loads(strip(out.text)).t = "dict"
    /\ json_loads(strip(out.text)).d = EmptyDict

\* Number of occurrences of x in sequence s.
Count(s, x) == Cardinality({i \in 1..Len(s) : s[i] = x})

planner_runs == Count(trace, "planner")
reviewer_runs == Count(trace, "reviewer")
supervisor_runs == Count(trace, "supervisor")
loop_backs == Count(routes, "loop_back")
bootstraps == Count(routes, "no_proposal")

Start(st) ==
    /\ state = st
    /\ next = "main"
    /\ trace = <<>>
    /\ routes = <<>>
    /\ reviewed = FALSE
    /\ all_issues = TRUE
    /\ all_raised = TRUE
    /\ no_empty = TRUE
    /\ call = NoCall
    /\ streamed = <<>>

\* main() has read the task and the strict flag; state is the initial_state
\* it builds from them if the task is not empty.
Init ==
    \E task \in TaskInputs, strict \in BOOLEAN :
        Start(initial_state(task, strict))

\* Any state with absent proposal and feedback, for the router's bootstrap.
InitAny ==
    \E task \in TaskInputs, strict \in BOOLEAN, llm \in Models,
       n \in 0..MaxInitTurn :
        Start(Merge(initial_state(task, strict), [llm |-> llm, turn_count |-> n]))

\* main(): return at once on an empty task, otherwise start the graph.
Main ==
    /\ next = "main"
    /\ next' = IF state.task = "" THEN "return" ELSE entry_point
    /\ UNCHANGED <<state, trace, routes, reviewed, all_issues, all_raised,
                   no_empty, call, streamed>>

Supervisor ==
    /\ next = "supervisor"
    /\ Len(trace) < recursion_limit
    /\ LET merged == Merge(state, supervisor_node(state))
       IN  /\ state' = merged
           /\ next' = path_map(router_logic(merged))
           /\ routes' = Append(routes, router_branch(merged))
    /\ trace' = Append(trace, "supervisor")
    /\ UNCHANGED <<reviewed, all_issues, all_raised, no_empty, call, streamed>>

\* A node's update is merged and its edge followed; an exception leaving
\* the node leaves graph.stream too and the run is over.
PlannerOn(outs) ==
    /\ next = "planner"
    /\ Len(trace) < recursion_limit
    /\ \E out \in outs :
          LET update == planner_node(state, out)
          IN  /\ state' = IF "raise" \in DOMAIN update
                            THEN state ELSE Merge(state, update)
              /\ next' = IF "raise" \in DOMAIN update
                           THEN NodeException ELSE edge("planner")
              /\ all_raised' = (all_raised /\ out.raised)
              /\ no_empty' = (no_empty /\ ~ParsesToEmpty(out))
              /\ call' = [model |-> state.llm, prompt |-> planner_prompt(state),
                          out |-> out]
    /\ trace' = Append(trace, "planner")
    /\ reviewed' = FALSE
    /\ UNCHANGED <<routes, all_issues, streamed>>

ReviewerOn(outs) ==
    /\ next = "reviewer"
    /\ Len(trace) < recursion_limit
    /\ \E out \in outs :
          LET update == reviewer_node(state, out)
          IN  /\ state' = IF "raise" \in DOMAIN update
                            THEN state ELSE Merge(state, update)
              /\ next' = IF "raise" \in DOMAIN update
                           THEN NodeException ELSE edge("reviewer")
              /\ all_raised' = (all_raised /\ out.raised)
              /\ no_empty' = (no_empty /\ ~ParsesToEmpty(out))
              /\ call' = [model |-> state.llm, prompt |-> reviewer_prompt(state),
                          out |-> out]
    /\ all_issues' = (all_issues /\
                        Truthy(Get(state'.reviewer_feedback, "has_issues", JFalse)))
    /\ trace' = Append(trace, "reviewer")
    /\ reviewed' = TRUE
    /\ UNCHANGED <<routes, streamed>>

\* graph.stream gives up: the step limit is reached and the router has not
\* returned END; the error leaves the loop and the run is over.
OutOfSteps ==
    /\ next \in {"supervisor", "planner", "reviewer"}
    /\ Len(trace) >= recursion_limit
    /\ next' = GraphRecursionError
    /\ UNCHANGED <<state, trace, routes, reviewed, all_issues, all_raised,
                   no_empty, call, streamed>>

Planner == PlannerOn(Outcomes)

Reviewer == ReviewerOn(Outcomes)

Next == Main \/ Supervisor \/ Planner \/ Reviewer \/ OutOfSteps

Spec == Init /\ [][Next]_vars

\* main() after the streamed run reached END: graph.invoke(initial_state)
\* runs the graph once more from the same initial state; its result is the
\* final_state main() reports.
Invoke ==
    /\ next = END
    /\ streamed = <<>>
    /\ streamed' = <<state>>
    /\ state' = initial_state(state.task, state.strict)
    /\ next' = entry_point
    /\ trace' = <<>>
    /\ routes' = <<>>
    /\ reviewed' = FALSE
    /\ all_issues' = TRUE
    /\ all_raised' = TRUE
    /\ no_empty' = TRUE
    /\ call' = NoCall

\* The outcomes drawn when both runs of main() are explored together.
MainOutcomes ==
    {[raised |-> FALSE, text |-> r] : r \in {TxtEmptyObj, TxtPlan, TxtIssues, TxtOk}}

MainPlanner == PlannerOn(MainOutcomes)

MainReviewer == ReviewerOn(MainOutcomes)

MainNext ==
    Main \/ Supervisor \/ MainPlanner \/ MainReviewer \/ OutOfSteps \/ Invoke

\* main() as a whole: the streamed run, then the invoked run.
MainSpec == Init /\ [][MainNext]_vars

\* The same graph started from any bootstrap state.
BootSpec == InitAny /\ [][Next]_vars

(***************************************************************************)
(* The graph of test_correction_loop.py: the same supervisor, router and   *)
(* edges, a planner that revises on feedback and a reviewer that calls no  *)
(* model and decides on turn_count alone.                                  *)
(***************************************************************************)
DefaultTask ==
    "Create a simple Python script to read a CSV file and calculate averages"

\* The initial_state of the test's main().
test_initial_state(task) ==
    [task |-> task,
     llm |-> "smollm:1.7b",
     planner_proposal |-> EmptyDict,
     reviewer_feedback |-> EmptyDict,
     turn_count |-> 0]

\* test_planner_prompt asking for a revision only after the third turn.
test_planner_prompt_late_turn(st) ==
    IF DictTruthy(st.reviewer_feedback) /\ st.turn_count > 3
      THEN [template |-> "revise", task |-> st.task, plan |-> EmptyDict,
            feedback |-> st.reviewer_feedback, tone |-> ""]
      ELSE [template |-> "first_draft", task |-> st.task, plan |-> EmptyDict,
            feedback |-> EmptyDict, tone |-> ""]

\* The prompt of the test's planner_node.
test_planner_prompt(st) ==
    IF DictTruthy(st.reviewer_feedback) /\ st.turn_count > 1
      THEN [template |-> "revise", task |-> st.task, plan |-> EmptyDict,
            feedback |-> st.reviewer_feedback, tone |-> ""]
      ELSE [template |-> "first_draft", task |-> st.task, plan |-> EmptyDict,
            feedback |-> EmptyDict, tone |-> ""]

\* value[:100] is defined for str and list and raises TypeError otherwise.
CanSlice(val) == val.t \in {"str", "list"}
SliceErrorText(t) == "'" \o t \o "' object is not subscriptable"

\* The test's planner_node: as planner_node, with the plan preview line.
test_planner_node(st, out) ==
    IF out.raised
      THEN [planner_proposal |-> planner_error(out.text)]
      ELSE LET output == strip(out.text)
               parsed == json_loads(output)
               proposal == IF parsed.ok
                             THEN parsed.d
                             ELSE Dict([plan |-> JStr(output),
                                        steps |-> JList("[]")])
           IN  IF parsed.ok /\ parsed.t # "dict"
                 THEN [planner_proposal |->
                         planner_error(AttributeErrorText(parsed.t))]
               ELSE IF ~HasLen(Get(proposal, "steps", JList("[]")))
                 THEN [planner_proposal |->
                         planner_error(TypeErrorText(
                             Get(proposal, "steps", JList("[]")).t))]
               ELSE IF ~CanSlice(Get(proposal, "plan", JStr("")))
                 THEN [planner_proposal |->
                         planner_error(SliceErrorText(
                             Get(proposal, "plan", JStr("")).t))]
               ELSE [planner_proposal |-> proposal]

\* Turn below which reviewer_node_always_issues forces issues.
forced_turns == 3

reviewer_node_always_issues(st) ==
    IF st.turn_count < forced_turns
      THEN [reviewer_feedback |->
              Dict([feedback |-> JStr("[FORCED ISSUE #" \o ToString(st.turn_count)
                                        \o "] The plan needs more detail in step "
                                        \o ToString(st.turn_count + 1) \o "."),
                    has_issues |-> JTrue,
                    suggestions |-> JList("[3 suggestions]")])]
      ELSE [reviewer_feedback |->
              Dict([feedback |-> JStr("The plan looks good now after multiple revisions."),
                    has_issues |-> JFalse,
                    suggestions |-> JList("[]")])]

\* The test's main() has read the task; an empty one becomes DefaultTask.
InitTest ==
    \E task \in TaskInputs :
        Start(test_initial_state(IF task = "" THEN DefaultTask ELSE task))

\* The test's main() always starts the graph.
TestMain ==
    /\ next = "main"
    /\ next' = entry_point
    /\ UNCHANGED <<state, trace, routes, reviewed, all_issues, all_raised,
                   no_empty, call, streamed>>

TestPlanner ==
    /\ next = "planner"
    /\ Len(trace) < recursion_limit
    /\ \E out \in Outcomes :
          LET update == test_planner_node(state, out)
          IN  /\ state' = IF "raise" \in DOMAIN update
                            THEN state ELSE Merge(state, update)
              /\ next' = IF "raise" \in DOMAIN update
                           THEN NodeException ELSE edge("planner")
              /\ all_raised' = (all_raised /\ out.raised)
              /\ no_empty' = (no_empty /\ ~ParsesToEmpty(out))
              /\ call' = [model |-> state.llm,
                          prompt |-> test_planner_prompt(state), out |-> out]
    /\ trace' = Append(trace, "planner")
    /\ reviewed' = FALSE
    /\ UNCHANGED <<routes, all_issues, streamed>>

TestReviewer ==
    /\ next = "reviewer"
    /\ Len(trace) < recursion_limit
    /\ state' = Merge(state, reviewer_node_always_issues(state))
    /\ next' = edge("reviewer")
    /\ all_issues' = (all_issues /\
                        Truthy(Get(state'.reviewer_feedback, "has_issues", JFalse)))
    /\ trace' = Append(trace, "reviewer")
    /\ reviewed' = TRUE
    /\ UNCHANGED <<routes, all_raised, no_empty, call, streamed>>

TestNext == TestMain \/ Supervisor \/ TestPlanner \/ TestReviewer \/ OutOfSteps

TestSpec == InitTest /\ [][TestNext]_vars

TypeOK ==
    /\ next \in {"main", "return", "supervisor", "planner", "reviewer", END,
                 GraphRecursionError, NodeException}
    /\ state.turn_count \in 0..(recursion_limit + MaxInitTurn)
    /\ Len(trace) <= recursion_limit

(***************************************************************************)
(* Properties.                                                             *)
(***************************************************************************)
last_node == IF Len(trace) = 0 THEN "" ELSE trace[Len(trace)]
prev_node == IF Len(trace) < 2 THEN "" ELSE trace[Len(trace) - 1]
last_route == IF Len(routes) = 0 THEN "" ELSE routes[Len(routes)]
has_issues == Get(state.reviewer_feedback, "has_issues", Absent)

\* The step sequence Supervisor, Planner, Supervisor, Reviewer, Supervisor.
OneCycle == <<"supervisor", "planner", "supervisor", "reviewer", "supervisor">>

\* C1: a run from turn_count 0 with empty records ends within
\* 2 * max_turns + 2 node executions, and the router never sends a state
\* that already has a proposal back to the planner once turn_count has
\* reached max_turns.
C1_BoundedLoop ==
    /\ Len(trace) <= 2 * max_turns + 2
    /\ (next # END => Len(trace) < 2 * max_turns + 2)
    /\ (next = "planner" /\ DictTruthy(state.planner_proposal)
          => state.turn_count < max_turns)

\* C2: every run reaches END, whatever ollama.generate does on each call:
\* no sequence of outcomes keeps the supervisor / router loop going until
\* graph.stream gives up, so a run is never over otherwise than by the
\* router returning END.
C2_EventuallyStops == next # GraphRecursionError

\* C3: the router loops back to the planner only with a plan that a
\* reviewer execution has seen, so a reviewer runs between two consecutive
\* planner executions.
C3_ReviewedBeforeLoopBack ==
    (next = "planner" /\ last_route = "loop_back") => reviewed

\* C4: when a reviewer execution stored feedback with has_issues false,
\* the router decision after the following supervisor increment is END,
\* whatever turn_count is.
C4_Convergence ==
    (last_node = "supervisor" /\ prev_node = "reviewer" /\ has_issues = JFalse)
        => next = END

C4_Witness ==
    /\ last_node = "supervisor" /\ prev_node = "reviewer"
    /\ has_issues = JFalse
    /\ state.turn_count > max_turns
    /\ next = END

\* C5: the reviewer is scheduled only when a planner execution of the run
\* has stored a non-empty planner_proposal, and every reviewer execution
\* comes after a planner execution.
C5_Ordering ==
    /\ next = "reviewer"
          => (planner_runs > 0 /\ DictTruthy(state.planner_proposal))
    /\ \A i \in 1..Len(trace) :
          trace[i] = "reviewer" => \E j \in 1..(i - 1) : trace[j] = "planner"

C5_Witness ==
    /\ last_node = "reviewer"
    /\ planner_runs > 0
    /\ DictTruthy(state.planner_proposal)

\* C6: from any state with empty proposal and feedback, whatever task, llm,
\* strict and turn_count are, the first router decision is the planner; and
\* at every decision an empty proposal selects the planner and an empty
\* feedback (with a proposal) the reviewer, whatever turn_count is (next
\* holds the router's decision until graph.stream gives up).
C6_Bootstrap ==
    next # GraphRecursionError =>
        /\ (Len(trace) = 1 => next = "planner")
        /\ (last_node = "supervisor" /\ ~DictTruthy(state.planner_proposal)
              => next = "planner")
        /\ (last_node = "supervisor" /\ DictTruthy(state.planner_proposal)
                /\ ~DictTruthy(state.reviewer_feedback)
              => next = "reviewer")

C6_Witness ==
    /\ Len(trace) = 1
    /\ state.turn_count > max_turns
    /\ state.llm # "smollm:1.7b"
    /\ next = "planner"

\* C7: when the first review stores has_issues false, the run is exactly
\* Supervisor, Planner, Supervisor, Reviewer, Supervisor and ends with
\* turn_count 3.
C7_ScenarioA ==
    (next = END /\ reviewer_runs = 1 /\ has_issues = JFalse)
        => (trace = OneCycle /\ state.turn_count = 3 /\ planner_runs = 1)

\* C8: when every review stores truthy has_issues, the run ends at the
\* first supervisor visit with turn_count >= max_turns, so with turn_count
\* equal to max_turns.
C8_ScenarioBStop ==
    (next = END /\ reviewer_runs > 0 /\ all_issues)
        => state.turn_count = max_turns

\* C9 as stated: when every review stores truthy has_issues, the number of
\* planner executions of the run equals the number of loop-backs.
C9_PlannerCountOriginal ==
    (next = END /\ reviewer_runs > 0 /\ all_issues)
        => planner_runs = loop_backs

\* C9 amended: when every review stores truthy has_issues, the number of
\* planner executions of the run equals the number of loop-backs plus the
\* number of bootstrap decisions (planner chosen because there is no
\* proposal yet).
C9_PlannerCount ==
    (next = END /\ reviewer_runs > 0 /\ all_issues)
        => planner_runs = loop_backs + bootstraps

C9_Witness ==
    /\ next = END /\ reviewer_runs > 0 /\ all_issues
    /\ loop_backs = 2
    /\ planner_runs = 3

\* C10: when every ollama.generate call raises, the run is a prefix of
\* Supervisor, Planner, Supervisor, Reviewer, Supervisor and ends there with
\* turn_count 3; the proposal holds the failure text with empty steps and
\* the feedback holds the failure text with has_issues false.
C10_ScenarioC ==
    all_raised =>
        /\ Len(trace) <= 5
        /\ trace = SubSeq(OneCycle, 1, Len(trace))
        /\ (Len(trace) = 5 => next = END /\ state.turn_count = 3)
        /\ (planner_runs > 0 =>
              \E e \in ClientErrors :
                  state.planner_proposal =
                      Dict([plan |-> JStr("Error: " \o e), steps |-> JList("[]")]))
        /\ (reviewer_runs > 0 =>
              \E e \in ClientErrors :
                  state.reviewer_feedback =
                      Dict([feedback |-> JStr("Error: " \o e),
                            has_issues |-> JFalse,
                            suggestions |-> JList("[]")]))

C10_Witness ==
    /\ all_raised
    /\ next = END
    /\ planner_runs = 1
    /\ reviewer_runs = 1
    /\ state.turn_count = 3

\* A value is a dict of this program: every key maps to a JSON value or to
\* Absent.
IsDict(d) ==
    /\ DOMAIN d = Keys
    /\ \A k \in Keys : d[k].t \in {"str", "bool", "int", "list", "absent"}

\* The response of the last call is not valid JSON, or is JSON but no object.
Malformed(out) ==
    /\ ~out.raised
    /\ (~json_loads(strip(out.text)).ok \/ json_loads(strip(out.text)).t # "dict")

\* C11: whatever text ollama.generate returns, no exception leaves
\* planner_node or reviewer_node: the step stores a dict as its update and
\* the graph goes on to the supervisor.
C11_CoercionTotality ==
    /\ next # NodeException
    /\ (last_node = "planner"
          => (IsDict(state.planner_proposal) /\ next = "supervisor"))
    /\ (last_node = "reviewer"
          => (IsDict(state.reviewer_feedback) /\ next = "supervisor"))

C11_Witness ==
    /\ last_node = "reviewer"
    /\ call.out = [raised |-> FALSE, text |-> TxtList]
    /\ state.reviewer_feedback = reviewer_error(AttributeErrorText("list"))
    /\ state.planner_proposal = planner_error(TypeErrorText("int"))
    /\ next = "supervisor"

\* C12: a stored planner_proposal always has plan and steps, and a stored
\* reviewer_feedback always has has_issues and suggestions (the step fills
\* the defaults a parsed response lacks).
C12_WellFormed ==
    /\ planner_runs > 0 =>
          (state.planner_proposal["plan"] # Absent
             /\ state.planner_proposal["steps"] # Absent)
    /\ reviewer_runs > 0 =>
          (state.reviewer_feedback["has_issues"] # Absent
             /\ state.reviewer_feedback["suggestions"] # Absent)

\* C13: when the response is not valid JSON or is JSON but no object, the
\* stored record carries the response text (as the step stripped it) in its
\* prose field, with empty steps / suggestions and has_issues false.
C13_Fallback ==
    /\ (last_node = "planner" /\ Malformed(call.out)) =>
          state.planner_proposal =
              Dict([plan |-> JStr(strip(call.out.text)), steps |-> JList("[]")])
    /\ (last_node = "reviewer" /\ Malformed(call.out)) =>
          state.reviewer_feedback =
              Dict([feedback |-> JStr(strip(call.out.text)),
                    has_issues |-> JFalse, suggestions |-> JList("[]")])

\* C15: each supervisor execution adds 1 to turn_count and changes no other
\* field, the agent nodes leave turn_count alone, so turn_count is the
\* number of supervisor executions, which at a router decision is the
\* number of planner and reviewer executions plus 1.
C15_PureIncrement ==
    /\ [](state.turn_count = supervisor_runs)
    /\ [](last_node = "supervisor"
            => supervisor_runs = planner_runs + reviewer_runs + 1)
    /\ [][(trace' # trace /\ trace'[Len(trace')] = "supervisor")
            => state' = [state EXCEPT !.turn_count = @ + 1]]_vars
    /\ [][(trace' # trace /\ trace'[Len(trace')] # "supervisor")
            => state'.turn_count = state.turn_count]_vars

C15_Witness ==
    /\ last_node = "supervisor"
    /\ state.turn_count = 4
    /\ planner_runs = 2
    /\ reviewer_runs = 1

\* C16: with an empty task main() returns before the graph starts (no node
\* runs, ollama.generate is never called, turn_count stays 0), and that
\* return is the only way a run is over without the router returning END.
C16_InputValidation ==
    /\ state.task = "" =>
          (next \in {"main", "return"} /\ trace = <<>> /\ call = NoCall
             /\ state.turn_count = 0)
    /\ next \in {"return", GraphRecursionError, NodeException} =>
          (next = "return" /\ state.task = "")

\* C18: the supervisor is the first node of a run; a planner or reviewer
\* execution is always followed at once by a supervisor execution; the
\* router is evaluated once per supervisor execution and its result is the
\* node that runs next.
C18_LoopShape ==
    /\ Len(trace) > 0 => trace[1] = "supervisor"
    /\ \A i \in 1..(Len(trace) - 1) :
          /\ trace[i] \in {"planner", "reviewer"} => trace[i + 1] = "supervisor"
          /\ trace[i] = "supervisor" => trace[i + 1] \in {"planner", "reviewer"}
    /\ last_node \in {"planner", "reviewer"} => next = "supervisor"
    /\ Len(routes) = supervisor_runs
    /\ (last_node = "supervisor" /\ next # GraphRecursionError)
          => next = router_logic(state)

C18_Witness ==
    /\ last_node = "planner"
    /\ planner_runs = 3
    /\ reviewer_runs = 1
    /\ next = "supervisor"

\* C19: a planner execution that finds reviewer_feedback present sends a
\* prompt that includes that feedback and asks for a revision; it sends the
\* first-draft prompt only when there is no feedback.
C19_RevisionPrompt ==
    last_node = "planner" =>
        IF DictTruthy(state.reviewer_feedback)
          THEN /\ call.prompt.template = "revise"
               /\ call.prompt.feedback = state.reviewer_feedback
          ELSE call.prompt.template = "first_draft"

C14_CorrectionLoop ==
    next = END => state.reviewer_feedback["has_issues"] = JFalse

\* C17: the final state main() reports is the state the streamed trace of
\* the same invocation ends in: same planner_proposal, reviewer_feedback
\* and turn_count (and every other field).
C17_TraceAndFinalAgree ==
    (streamed # <<>> /\ next = END) => state = streamed[1]

\* C21: in the test graph started from turn_count 0 with empty records, a
\* non-empty reviewer_feedback implies turn_count >= 2; so whenever the
\* planner is about to execute, and whenever it has just executed, its
\* prompt is the revision prompt (carrying the stored feedback) exactly
\* when reviewer_feedback is non-empty: the turn_count > 1 part of the
\* test's condition never changes the choice.
C21_SameRevisionCondition ==
    /\ DictTruthy(state.reviewer_feedback) => state.turn_count >= 2
    /\ next = "planner" =>
          /\ (test_planner_prompt(state).template = "revise")
                = DictTruthy(state.reviewer_feedback)
          /\ test_planner_prompt(state).feedback = state.reviewer_feedback
    /\ last_node = "planner" =>
          /\ (call.prompt.template = "revise")
                = DictTruthy(state.reviewer_feedback)
          /\ call.prompt.feedback = state.reviewer_feedback

\* A planner execution that found feedback and sent the revision prompt.
C21_Witness ==
    /\ last_node = "planner"
    /\ DictTruthy(state.reviewer_feedback)
    /\ call.prompt.template = "revise"
    /\ call.prompt.feedback = state.reviewer_feedback
    /\ loop_backs > 0
====
